---------------------------- MODULE Spec2Model ----------------------------
(***************************************************************************)
(* First-rib tubercle recovery (Post_Processing/tubercle_recovery.py) and  *)
(* the chest post-processing pipeline (Post_Processing/ribcage_pipeline.py)*)
(*                                                                         *)
(* Volumes are voxel grids of NX x NY x NZ voxels.  A binary mask is a     *)
(* record [origin, spacing, fg]: fg is the set of foreground indices       *)
(* <<x, y, z>>; a CT volume is [origin, spacing, hu] with hu a function    *)
(* from indices to integer Hounsfield units.  Physical points are integer  *)
(* millimetre triples.  All images have the same size and an identity      *)
(* direction matrix; a rib file may have another origin than its CT.       *)
(***************************************************************************)
EXTENDS Integers, Sequences, FiniteSets, TLC

VARIABLES
    pc,          \* control position of the specification in use
    skel_u8,     \* endpoints_from_skeleton: the skeleton image given
    eps,         \* endpoints_from_skeleton: the list returned
    grow_u8,     \* keep_growth_touching_rib: the grown mask given
    rib_u8,      \* keep_growth_touching_rib: the rib mask given
    kept,        \* keep_growth_touching_rib: the mask returned
    tip,         \* corridor_for_tip / region_grow_local: the arguments given
    corridor,    \* corridor_for_tip: the mask returned
    growth,      \* region_grow_local: the mask returned
    nbhd,        \* the classifier's view of one endpoint's neighbourhood
    verdict,     \* the fraction returned for it and the hard-cutoff decision
    ct,          \* the CT volume loaded / given to repair_first_rib
    rib_path,    \* repair_first_rib: the path of the rib file given
    rib_file,    \* the image stored in that rib file
    rep,         \* repair_first_rib: what the call computed, wrote and logged
    subjects,    \* the subject directories on disk, in processing order
    si,          \* the number of subjects the batch loop has taken
    rib_files,   \* the rib files of the current subject still to process
    out_dir,     \* the output files written: path -> what was written
    log,         \* the lines printed
    started,     \* the units whose processing has started
    tally,       \* run_pipeline's counters <<successful, failed>>
    ct_reads,    \* the subjects whose CT file was loaded, one entry per load
    spine_builds \* the subjects whose spine mask was built, one entry per build

endpointsVars == <<skel_u8, eps>>
filterVars == <<grow_u8, rib_u8, kept>>
corridorVars == <<tip, corridor, growth>>
classifyVars == <<nbhd, verdict>>
repairVars == <<ct, rib_path, rib_file, rep>>
batchVars == <<subjects, si, rib_files, out_dir, log, started, tally, ct_reads,
               spine_builds>>

vars == <<pc, endpointsVars, filterVars, corridorVars, classifyVars, repairVars,
          batchVars>>

Null == "null"

-----------------------------------------------------------------------------
(* Bounds of the model *)

NX == 3
NY == 3
NZ == 2
MaxLen == 3

-----------------------------------------------------------------------------
(* Index arithmetic *)

Abs(n) == IF n < 0 THEN -n ELSE n
Max2(a, b) == IF a >= b THEN a ELSE b
Min2(a, b) == IF a <= b THEN a ELSE b

Size == <<NX, NY, NZ>>
Grid == (0..(NX - 1)) \X (0..(NY - 1)) \X (0..(NZ - 1))
InGrid(i) == \A k \in 1..3 : 0 <= i[k] /\ i[k] < Size[k]

VAdd(a, b) == <<a[1] + b[1], a[2] + b[2], a[3] + b[3]>>
VSub(a, b) == <<a[1] - b[1], a[2] - b[2], a[3] - b[3]>>
VScale(n, a) == <<n * a[1], n * a[2], n * a[3]>>

\* Python round(): n/d rounded to the nearest integer, halves to the even one.
RoundHalfEven(n, d) ==
    LET q == n \div d
        r == n % d
    IN  IF 2 * r < d THEN q
        ELSE IF 2 * r > d THEN q + 1
        ELSE IF q % 2 = 0 THEN q ELSE q + 1

\* ITK's index rounding: n/d rounded to the nearest integer, halves upwards.
RoundHalfUp(n, d) == (2 * n + d) \div (2 * d)

\* img.TransformIndexToPhysicalPoint
TransformIndexToPhysicalPoint(img, i) ==
    <<img.origin[1] + i[1] * img.spacing[1],
      img.origin[2] + i[2] * img.spacing[2],
      img.origin[3] + i[3] * img.spacing[3]>>

\* img.TransformPhysicalPointToIndex: the nearest index, which may lie
\* outside the image.
TransformPhysicalPointToIndex(img, p) ==
    [k \in 1..3 |-> RoundHalfUp(p[k] - img.origin[k], img.spacing[k])]

-----------------------------------------------------------------------------
(* endpoints_from_skeleton *)

\* np.argwhere order of a (z, y, x) array: ascending z, then y, then x.
ZYXBefore(a, b) ==
    \/ a[3] < b[3]
    \/ a[3] = b[3] /\ a[2] < b[2]
    \/ a[3] = b[3] /\ a[2] = b[2] /\ a[1] < b[1]

RECURSIVE argwhere(_)
argwhere(S) ==
    IF S = {} THEN <<>>
    ELSE LET first == CHOOSE a \in S : \A b \in S \ {a} : ZYXBefore(a, b)
         IN  <<first>> \o argwhere(S \ {first})

\* convolve(sk, ones((3,3,3)), mode="constant", cval=0) at voxel v: the
\* number of skeleton voxels in the 3x3x3 block around v, v included.
nbWrong(sk, v) ==
    Cardinality({w \in sk : w # v /\ \A k \in 1..3 : Abs(w[k] - v[k]) <= 1})

nb(sk, v) ==
    Cardinality({w \in sk : \A k \in 1..3 : Abs(w[k] - v[k]) <= 1})

endpoints_from_skeleton(skel) ==
    LET ep  == {v \in Grid : v \in skel.fg /\ nb(skel.fg, v) = 2}
        zyx == argwhere(ep)
    IN  [n \in 1..Len(zyx) |-> TransformIndexToPhysicalPoint(skel, zyx[n])]

-----------------------------------------------------------------------------
(* Specification of endpoints_from_skeleton on straight-line skeletons *)

Spacings == {<<10, 10, 10>>, <<10, 10, 30>>, <<40, 10, 10>>}

Directions == {d \in {-1, 0, 1} \X {-1, 0, 1} \X {-1, 0, 1} : d # <<0, 0, 0>>}

\* The voxels of the straight line from p0 in direction d, len voxels long.
LineVoxels(p0, d, len) == {VAdd(p0, VScale(n, d)) : n \in 0..(len - 1)}

Lines ==
    {l \in [p0 : Grid, d : Directions, len : 1..MaxLen] :
        LineVoxels(l.p0, l.d, l.len) \subseteq Grid}

EndpointsIdle == skel_u8 = Null /\ eps = Null
FilterIdle == grow_u8 = Null /\ rib_u8 = Null /\ kept = Null
CorridorIdle == tip = Null /\ corridor = Null /\ growth = Null
ClassifyIdle == nbhd = Null /\ verdict = Null
RepairIdle == ct = Null /\ rib_path = Null /\ rib_file = Null /\ rep = Null
BatchIdle ==
    /\ subjects = Null /\ si = 0 /\ rib_files = Null /\ out_dir = Null
    /\ log = Null /\ started = Null /\ tally = Null /\ ct_reads = Null
    /\ spine_builds = Null

InitEndpoints ==
    /\ pc = "skeleton"
    /\ \E l \in Lines, sp \in Spacings :
           skel_u8 = [origin |-> <<0, 0, 0>>, spacing |-> sp,
                      fg |-> LineVoxels(l.p0, l.d, l.len)]
    /\ eps = Null
    /\ FilterIdle /\ CorridorIdle /\ ClassifyIdle /\ RepairIdle /\ BatchIdle

EndpointsFromSkeleton ==
    /\ pc = "skeleton"
    /\ eps' = endpoints_from_skeleton(skel_u8)
    /\ pc' = "done"
    /\ UNCHANGED <<skel_u8, filterVars, corridorVars, classifyVars, repairVars, batchVars>>

NextEndpoints == EndpointsFromSkeleton

SpecEndpoints == InitEndpoints /\ [][NextEndpoints]_vars

\* The terminal voxels of a straight line: the voxels with no line voxel
\* on one of their two sides along the line.
IsLine(S, l) == S = LineVoxels(l.p0, l.d, l.len)
Terminals(l) == {l.p0, VAdd(l.p0, VScale(l.len - 1, l.d))}
SeqRange(s) == {s[n] : n \in 1..Len(s)}

\* C10 (as stated): an unbranched straight-line skeleton of any length
\* yields exactly 2 endpoints.
C10_AnyLengthTwoEndpoints ==
    pc = "done" => Len(eps) = 2

\* C10 (amended): a straight-line skeleton of at least 2 voxels yields
\* exactly 2 endpoints, the physical points of its two terminal voxels; a
\* single-voxel skeleton yields none.
C10_StraightLineEndpoints ==
    pc = "done" =>
        \A l \in Lines :
            IsLine(skel_u8.fg, l) =>
                IF l.len >= 2
                THEN /\ Len(eps) = 2
                     /\ SeqRange(eps) =
                            {TransformIndexToPhysicalPoint(skel_u8, t) : t \in Terminals(l)}
                ELSE eps = <<>>

C10_Witness ==
    /\ pc = "done"
    /\ Cardinality(skel_u8.fg) = MaxLen
    /\ Len(eps) = 2

-----------------------------------------------------------------------------
(* Morphology and labelling (SimpleITK filters as the code calls them) *)

\* The flat ball structuring element of voxel radii rad: the offsets inside
\* the ellipsoid whose axes are the kernel's sizes 2*rad[k] + 1.
InBall(o, rad) ==
    LET a == (2 * rad[1] + 1) * (2 * rad[1] + 1)
        b == (2 * rad[2] + 1) * (2 * rad[2] + 1)
        c == (2 * rad[3] + 1) * (2 * rad[3] + 1)
    IN  /\ \A k \in 1..3 : Abs(o[k]) <= rad[k]
        /\ 4 * (o[1] * o[1] * b * c + o[2] * o[2] * a * c + o[3] * o[3] * a * b)
               <= a * b * c

\* sitk.BinaryDilate(img, rad): ball kernel, the result cropped to the image.
BinaryDilate(img, rad) ==
    [img EXCEPT !.fg = {v \in Grid : \E s \in img.fg : InBall(VSub(v, s), rad)}]

\* Neighbours across a voxel face (ITK's default, fullyConnected = False).
FaceAdjacent(a, b) ==
    Abs(a[1] - b[1]) + Abs(a[2] - b[2]) + Abs(a[3] - b[3]) = 1

\* Neighbours across a face, an edge or a corner.
FullAdjacent(a, b) ==
    a # b /\ \A k \in 1..3 : Abs(a[k] - b[k]) <= 1

\* The voxels of S reachable from the voxels of seen through face-adjacent
\* voxels of S.
RECURSIVE Flood(_, _)
Flood(seen, S) ==
    LET more == {w \in S \ seen : \E v \in seen : FaceAdjacent(v, w)}
    IN  IF more = {} THEN seen ELSE Flood(seen \cup more, S)

\* sitk.ConnectedComponent(img): the face-connected components of the mask.
ConnectedComponent(img) == {Flood({v}, img.fg) : v \in img.fg}

-----------------------------------------------------------------------------
(* keep_growth_touching_rib *)

keep_growth_NoFilter(grow, rib) == grow

keep_growth_touching_rib(grow, rib) ==
    IF grow.fg = {} THEN grow
    ELSE LET rib_d == BinaryDilate(rib, <<1, 1, 1>>)
             cc    == ConnectedComponent(grow)
         IN  [grow EXCEPT !.fg =
                  UNION {comp \in cc : comp \cap rib_d.fg # {}}]

-----------------------------------------------------------------------------
(* Specification of keep_growth_touching_rib on a rod and a grown mask made *)
(* of a line and one more voxel (an attached part and a possible blob)      *)

AxisDirections == {<<1, 0, 0>>, <<0, 1, 0>>, <<0, 0, 1>>}

AxisLines ==
    {LineVoxels(l.p0, l.d, l.len) : l \in {m \in Lines : m.d \in AxisDirections}}

CornerRods ==
    {LineVoxels(l.p0, l.d, l.len) :
        l \in {m \in Lines : m.p0 = <<0, 0, 0>> /\ m.d \in AxisDirections}}

GrownMasks ==
    {L \cup B : L \in AxisLines \cup {{}}, B \in {{v} : v \in Grid} \cup {{}}}

Image(sp, S) == [origin |-> <<0, 0, 0>>, spacing |-> sp, fg |-> S]

InitFilter ==
    /\ pc = "grown"
    /\ \E g \in GrownMasks : grow_u8 = Image(<<10, 10, 10>>, g)
    /\ \E r \in CornerRods : rib_u8 = Image(<<10, 10, 10>>, r)
    /\ kept = Null
    /\ EndpointsIdle /\ CorridorIdle /\ ClassifyIdle /\ RepairIdle /\ BatchIdle

KeepGrowthTouchingRib ==
    /\ pc = "grown"
    /\ kept' = keep_growth_touching_rib(grow_u8, rib_u8)
    /\ pc' = "done"
    /\ UNCHANGED <<grow_u8, rib_u8, endpointsVars, corridorVars, classifyVars, repairVars,
                   batchVars>>

NextFilter == KeepGrowthTouchingRib

SpecFilter == InitFilter /\ [][NextFilter]_vars

\* The one-voxel dilation of the rib: every voxel at most one step away
\* along each axis and not a corner of the 3x3x3 block.
TouchesRib(v) ==
    \E r \in rib_u8.fg :
        /\ \A k \in 1..3 : Abs(v[k] - r[k]) <= 1
        /\ Abs(v[1] - r[1]) + Abs(v[2] - r[2]) + Abs(v[3] - r[3]) <= 2

\* T is a union of connected components of S: no voxel of S outside T is
\* face-adjacent to a voxel of T.
ClosedIn(T, S) ==
    \A v \in T : \A w \in S \ T : ~FaceAdjacent(v, w)

\* C8: keep_growth_touching_rib returns exactly the union of the connected
\* components of the grown mask that intersect the one-voxel dilation of
\* the rib: it adds no voxel, keeps every grown voxel that touches the
\* dilated rib together with its whole component, and removes every
\* component that does not touch it.
C8_ComponentAttachment ==
    pc = "done" =>
        /\ kept.fg \subseteq grow_u8.fg
        /\ \A v \in grow_u8.fg : TouchesRib(v) => v \in kept.fg
        /\ ClosedIn(kept.fg, grow_u8.fg)
        /\ \A T \in SUBSET kept.fg :
               (T # {} /\ ClosedIn(T, kept.fg)) => \E v \in T : TouchesRib(v)
        /\ kept.origin = grow_u8.origin /\ kept.spacing = grow_u8.spacing

\* A grown mask with one component kept and one component removed.
C8_Witness ==
    /\ pc = "done"
    /\ kept.fg # {}
    /\ kept.fg # grow_u8.fg
    /\ Cardinality(ConnectedComponent(grow_u8)) = 2

-----------------------------------------------------------------------------
(* Knobs of tubercle_recovery.py (HU and millimetres) *)

UPPER_HU == 1200
R_RIB_MM_R == 10
R_TIP_MM_R == 14
SPINE_CLEAR_MM == 8
MASK_OUTSIDE_HU == -2000

-----------------------------------------------------------------------------
(* corridor_for_tip and region_grow_local *)

\* The squared distance in mm^2 between the centres of voxels a and b.
Dist2(sp, a, b) ==
    (a[1] - b[1]) * (a[1] - b[1]) * sp[1] * sp[1]
    + (a[2] - b[2]) * (a[2] - b[2]) * sp[2] * sp[2]
    + (a[3] - b[3]) * (a[3] - b[3]) * sp[3] * sp[3]

\* to_u8(dist_map_mm(m) <= r): the signed distance is <= 0 inside the mask
\* and the distance to the nearest mask voxel outside it.
DistAtMost(m, r) ==
    m.fg \cup {v \in Grid : \E s \in m.fg : Dist2(m.spacing, v, s) <= r * r}

\* to_u8(dist_map_mm(m) >= r), r > 0: outside the mask, no mask voxel nearer
\* than r.
DistAtLeast(m, r) ==
    {v \in Grid \ m.fg : \A s \in m.fg : Dist2(m.spacing, v, s) >= r * r}

\* max(1, int(round(mm / sp))) per axis
VoxelRadius(mm, sp) == [k \in 1..3 |-> Max2(1, RoundHalfEven(mm, sp[k]))]

\* The one-seed image dilated by the ball of radius r_tip_mm.
TipSphere(ribs, ep_phys, r_tip_mm) ==
    LET center_idx == TransformPhysicalPointToIndex(ribs, ep_phys)
        seed == IF InGrid(center_idx) THEN {center_idx} ELSE {}
    IN  BinaryDilate([ribs EXCEPT !.fg = seed], VoxelRadius(r_tip_mm, ribs.spacing))

corridor_NoSphere(ribs, spine, ep_phys, r_rib_mm, r_tip_mm) ==
    [ribs EXCEPT !.fg = DistAtMost(ribs, r_rib_mm)]

corridor_for_tip(ribs, spine, ep_phys, r_rib_mm, r_tip_mm) ==
    LET near_rib == DistAtMost(ribs, r_rib_mm)
        sphere   == TipSphere(ribs, ep_phys, r_tip_mm)
        cor      == near_rib \cap sphere.fg
    IN  [ribs EXCEPT !.fg =
            IF spine.fg # {}
            THEN cor \cap DistAtLeast(spine, SPINE_CLEAR_MM)
            ELSE cor]

\* lo <= hu <= hi, where lo5 is five times the lower bound (the 40th
\* percentile is a multiple of 1/5).
InWindow_Exclusive(hu, lo5, hi) == lo5 < 5 * hu /\ hu < hi

InWindow(hu, lo5, hi) == lo5 <= 5 * hu /\ hu <= hi

region_grow_Unmasked(volume, seeds_phys, lo5, hi, corridor_u8) ==
    LET ok == {v \in Grid : InWindow(volume.hu[v], lo5, hi)}
        seed_idx == {TransformPhysicalPointToIndex(volume, seeds_phys[n]) :
                        n \in 1..Len(seeds_phys)}
    IN  [origin |-> volume.origin, spacing |-> volume.spacing,
         fg |-> Flood(seed_idx \cap ok, ok)]

\* sitk.Mask, then sitk.ConnectedThreshold from the seeds (face connectivity):
\* the seeds inside the window and everything reachable from them inside it.
region_grow_local(volume, seeds_phys, lo5, hi, corridor_u8) ==
    IF seeds_phys = <<>>
    THEN [origin |-> volume.origin, spacing |-> volume.spacing, fg |-> {}]
    ELSE LET ct_masked == [v \in Grid |->
                              IF v \in corridor_u8.fg THEN volume.hu[v]
                              ELSE MASK_OUTSIDE_HU]
             ok == {v \in Grid : InWindow(ct_masked[v], lo5, hi)}
             seed_idx == {TransformPhysicalPointToIndex(volume, seeds_phys[n]) :
                             n \in 1..Len(seeds_phys)}
         IN  [origin |-> volume.origin, spacing |-> volume.spacing,
              fg |-> Flood(seed_idx \cap ok, ok)]

-----------------------------------------------------------------------------
(* CT volumes of the model: a uniform base intensity and one dense part *)

BaseHU == {100, 300, 450}

ZColumns == {LineVoxels(l.p0, l.d, l.len) :
                l \in {m \in Lines : m.d = <<0, 0, 1>> /\ m.p0[3] = 0 /\ m.len = NZ}}
Singles == {{v} : v \in Grid}

Volume(sp, base, dense, S) ==
    [origin |-> <<0, 0, 0>>, spacing |-> sp,
     hu |-> [v \in Grid |-> IF v \in S THEN dense ELSE base]]

-----------------------------------------------------------------------------
(* Specification of corridor_for_tip followed by region_grow_local *)

InitCorridor ==
    /\ pc = "tip"
    /\ \E sp \in {<<10, 10, 10>>, <<10, 10, 30>>}, r \in CornerRods,
          sn \in ZColumns \cup {{}}, hu \in {<<100, 700>>, <<300, 1500>>},
          S \in Singles \cup {{}}, lo5 \in {1000, 2000} :
          \E e \in r :
             tip = [ribs  |-> Image(sp, r),
                    spine |-> Image(sp, sn),
                    ep    |-> TransformIndexToPhysicalPoint(Image(sp, r), e),
                    ct    |-> Volume(sp, hu[1], hu[2], S),
                    lo5   |-> lo5]
    /\ corridor = Null
    /\ growth = Null
    /\ EndpointsIdle /\ FilterIdle /\ ClassifyIdle /\ RepairIdle /\ BatchIdle

CorridorAndGrow ==
    /\ pc = "tip"
    /\ LET cor == corridor_for_tip(tip.ribs, tip.spine, tip.ep, R_RIB_MM_R, R_TIP_MM_R)
       IN  /\ corridor' = cor
           /\ growth' = region_grow_local(tip.ct, <<tip.ep>>, tip.lo5, UPPER_HU, cor)
    /\ pc' = "done"
    /\ UNCHANGED <<tip, endpointsVars, filterVars, classifyVars, repairVars, batchVars>>

NextCorridor == CorridorAndGrow

SpecCorridor == InitCorridor /\ [][NextCorridor]_vars

TipIndex == TransformPhysicalPointToIndex(tip.ribs, tip.ep)

\* C7: every voxel of the growth lies inside the corridor built for the
\* endpoint, hence within R1 of the rib mask and within the radius-R2 ball
\* around the endpoint; a seed outside its corridor yields an empty growth.
C7_CorridorContainment ==
    pc = "done" =>
        /\ growth.fg \subseteq corridor.fg
        /\ \A v \in growth.fg :
              /\ \E s \in tip.ribs.fg :
                     Dist2(tip.ribs.spacing, v, s) <= R_RIB_MM_R * R_RIB_MM_R
              /\ InBall(VSub(v, TipIndex), VoxelRadius(R_TIP_MM_R, tip.ribs.spacing))
        /\ TipIndex \notin corridor.fg => growth.fg = {}

\* A growth that leaves the rib mask.
C7_Witness ==
    /\ pc = "done"
    /\ growth.fg \ tip.ribs.fg # {}
    /\ corridor.fg # Grid

\* A seed that the spine clearance puts outside its corridor.
C7_WitnessSeedOutside ==
    /\ pc = "done"
    /\ TipIndex \notin corridor.fg
    /\ InWindow(tip.ct.hu[TipIndex], tip.lo5, UPPER_HU)

\* The voxels within R1 of the rib mask, and the voxels of the radius-R2
\* ball around the endpoint voxel.
Band == {v \in Grid : \E s \in tip.ribs.fg :
            Dist2(tip.ribs.spacing, v, s) <= R_RIB_MM_R * R_RIB_MM_R}

Sphere == {v \in Grid :
              InBall(VSub(v, TipIndex), VoxelRadius(R_TIP_MM_R, tip.ribs.spacing))}

\* C17: the corridor lies inside the band and inside the sphere; with a
\* spine no voxel of it is nearer than SPINE_CLEAR_MM to a spine voxel, and
\* without a spine it is the band intersected with the sphere.
C17_CorridorInvariant ==
    pc = "done" =>
        /\ corridor.fg \subseteq Band \cap Sphere
        /\ tip.spine.fg # {} =>
               \A v \in corridor.fg : \A s \in tip.spine.fg :
                   Dist2(tip.spine.spacing, v, s) >= SPINE_CLEAR_MM * SPINE_CLEAR_MM
        /\ tip.spine.fg = {} => corridor.fg = Band \cap Sphere

\* A corridor that the sphere cuts out of the band and the spine clearance
\* cuts further, without emptying it.
C17_Witness ==
    /\ pc = "done"
    /\ tip.spine.fg # {}
    /\ corridor.fg # {}
    /\ corridor.fg # Band \cap Sphere
    /\ Band \cap Sphere # Band

\* The corridor voxels whose intensity is inside [lo, hi].
InBound == {v \in corridor.fg : InWindow(tip.ct.hu[v], tip.lo5, UPPER_HU)}

\* The voxels of S reachable from the voxels of seen through 26-adjacent
\* voxels of S.
RECURSIVE Reach26(_, _)
Reach26(seen, S) ==
    LET more == {w \in S \ seen : \E v \in seen : FullAdjacent(v, w)}
    IN  IF more = {} THEN seen ELSE Reach26(seen \cup more, S)

\* C19 (as stated): the growth is the set of in-bound corridor voxels
\* reachable from the endpoint voxel through 26-adjacent in-bound corridor
\* voxels, and is empty when the endpoint voxel itself is not in bound.
C19_Growth26Connected ==
    pc = "done" =>
        /\ growth.fg = Reach26({TipIndex} \cap InBound, InBound)
        /\ TipIndex \notin InBound => growth.fg = {}

\* The growth is the set of in-bound corridor voxels reachable from the
\* endpoint voxel through face-adjacent in-bound corridor voxels.
C19_GrowthFaceConnected ==
    pc = "done" =>
        /\ growth.fg = Flood({TipIndex} \cap InBound, InBound)
        /\ TipIndex \notin InBound => growth.fg = {}

-----------------------------------------------------------------------------
(* Knobs of the endpoint classifier; fractions are in thousandths *)

NBHD_RADIUS_MM == 12
NBHD_BONE_HU == 600
NBHD_BONE_FRAC_LEFT_CUTOFF == 50
NBHD_BONE_FRAC_RIGHT_CUTOFF == 5
POSTERIOR_Y_IDX_MIN_FRAC == 550
MIDLINE_X_TOL_MM == 50
PCTL_ROBUST == 40
LOWER_PCTL_FLOOR_R == 200
LOWER_HU_RIGHT_MIN == 400
SPINE_HU == 480
SPINE_MID_TOL_MM == 20
SPINE_Z_EXT_MM == 60
EMPTY_MASK_PCTL == 300
FINAL_CLOSING == <<8, 0, 8>>

-----------------------------------------------------------------------------
(* File names: sequences of characters *)

RIB_RIGHT_1 == <<"r", "i", "b", "_", "r", "i", "g", "h", "t", "_", "1">>

Name_rib_left_1 == <<"r", "i", "b", "_", "l", "e", "f", "t", "_", "1", ".", "n", "i", "i", ".", "g", "z">>
Name_rib_right_1 == <<"r", "i", "b", "_", "r", "i", "g", "h", "t", "_", "1", ".", "n", "i", "i", ".", "g", "z">>
Name_rib_right_1_dash == <<"r", "i", "b", "-", "r", "i", "g", "h", "t", "-", "1", ".", "n", "i", "i", ".", "g", "z">>
Name_rib_right_01 == <<"r", "i", "b", "_", "r", "i", "g", "h", "t", "_", "0", "1", ".", "n", "i", "i">>

RibNames == {Name_rib_left_1, Name_rib_right_1, Name_rib_right_1_dash, Name_rib_right_01}

\* sub in s (Python's substring test)
Contains(s, sub) ==
    \E i \in 1..(Len(s) - Len(sub) + 1) : SubSeq(s, i, i + Len(sub) - 1) = sub

\* os.path.basename: what follows the last "/"
basename(path) ==
    LET slashes == {i \in 1..Len(path) : path[i] = "/"}
        last == IF slashes = {} THEN 0
                ELSE CHOOSE i \in slashes : \A j \in slashes : j <= i
    IN  SubSeq(path, last + 1, Len(path))

-----------------------------------------------------------------------------
(* Side selection and the hard cutoff of repair_first_rib *)

SideParams_Swapped(path) ==
    IF Contains(basename(path), RIB_RIGHT_1)
    THEN [side_tag |-> "Right", active_cutoff |-> NBHD_BONE_FRAC_LEFT_CUTOFF,
          target_hu_floor |-> LOWER_HU_RIGHT_MIN]
    ELSE [side_tag |-> "Left", active_cutoff |-> NBHD_BONE_FRAC_RIGHT_CUTOFF,
          target_hu_floor |-> LOWER_PCTL_FLOOR_R]

SideParams(path) ==
    IF Contains(basename(path), RIB_RIGHT_1)
    THEN [side_tag |-> "Right", active_cutoff |-> NBHD_BONE_FRAC_RIGHT_CUTOFF,
          target_hu_floor |-> LOWER_HU_RIGHT_MIN]
    ELSE [side_tag |-> "Left", active_cutoff |-> NBHD_BONE_FRAC_LEFT_CUTOFF,
          target_hu_floor |-> LOWER_PCTL_FLOOR_R]

\* A fraction is a pair <<numerator, denominator>>; the sentinel 1.0 that
\* the classifier returns for an ineligible endpoint is <<1, 1>>.
INELIGIBLE == <<1, 1>>

\* frac <= active_cutoff, the cutoff in thousandths
\* No cutoff at all: every endpoint is a candidate.
IsCandidate_Always(frac, active_cutoff) == TRUE

IsCandidate_Strict(frac, active_cutoff) ==
    frac[1] * 1000 < active_cutoff * frac[2]

IsCandidate(frac, active_cutoff) ==
    frac[1] * 1000 <= active_cutoff * frac[2]

-----------------------------------------------------------------------------
(* Helpers of repair_first_rib *)

RECURSIVE SumOver(_, _)
SumOver(S, k) ==
    IF S = {} THEN 0
    ELSE LET v == CHOOSE w \in S : TRUE IN v[k] + SumOver(S \ {v}, k)


\* A resampling that hands the moving image back on its own grid.
resample_like_Unresampled(moving, fixed) == moving

\* resample_like(moving, fixed), nearest neighbour, identity transform,
\* default pixel 0: each voxel of the fixed grid takes the value of the
\* moving voxel nearest to its physical position, 0 outside the moving image.
ResampleSource(moving, fixed, j) ==
    LET q == TransformIndexToPhysicalPoint(fixed, j)
    IN  [k \in 1..3 |-> RoundHalfUp(q[k] - moving.origin[k], moving.spacing[k])]

resample_like(moving, fixed) ==
    [origin |-> fixed.origin, spacing |-> fixed.spacing,
     fg |-> {j \in Grid : ResampleSource(moving, fixed, j) \in moving.fg}]

\* build_spine_mask: the components of ct >= SPINE_HU whose centroid is
\* within SPINE_MID_TOL_MM of the mid x and whose bounding box is at least
\* SPINE_Z_EXT_MM high, dilated by one voxel.
IsSpineComponent(volume, comp) ==
    LET n  == Cardinality(comp)
        zs == {v[3] : v \in comp}
        sz == (CHOOSE a \in zs : \A b \in zs : b <= a)
              - (CHOOSE a \in zs : \A b \in zs : a <= b) + 1
    IN  /\ volume.spacing[1] * Abs(2 * SumOver(comp, 1) - n * NX)
               <= 2 * SPINE_MID_TOL_MM * n
        /\ sz * volume.spacing[3] >= SPINE_Z_EXT_MM

build_spine_mask(volume) ==
    LET high == [origin |-> volume.origin, spacing |-> volume.spacing,
                 fg |-> {v \in Grid : volume.hu[v] >= SPINE_HU}]
        out  == [high EXCEPT !.fg =
                    UNION {c \in ConnectedComponent(high) : IsSpineComponent(volume, c)}]
    IN  IF out.fg # {} THEN BinaryDilate(out, <<1, 1, 1>>) ELSE out

\* endpoint_is_posterior_missing_tubercle: the fraction of dense bone
\* outside the rib in the endpoint's neighbourhood box, or 1.0 when the
\* endpoint is not posterior or not near the midline.
\* The anatomical gate without its midline test.
IsEligible_PosteriorOnly(volume, ep_phys, y_frac_min, x_tol_mm) ==
    TransformPhysicalPointToIndex(volume, ep_phys)[2] * 1000 >= NY * y_frac_min

IsEligible(volume, ep_phys, y_frac_min, x_tol_mm) ==
    LET idx == TransformPhysicalPointToIndex(volume, ep_phys)
    IN  /\ idx[2] * 1000 >= NY * y_frac_min
        /\ Abs(2 * (ep_phys[1] - volume.origin[1]) - volume.spacing[1] * NX)
               <= 2 * x_tol_mm

NeighbourhoodBox(volume, ep_phys, nbhd_mm) ==
    LET idx == TransformPhysicalPointToIndex(volume, ep_phys)
        r   == VoxelRadius(nbhd_mm, volume.spacing)
    IN  {v \in Grid : \A k \in 1..3 :
            /\ Max2(0, idx[k] - r[k]) <= v[k]
            /\ v[k] <= Min2(Size[k] - 1, idx[k] + r[k])}

\* The classifier without its density gate: an eligible endpoint is reported
\* clean whatever surrounds it.
endpoint_without_density_gate(volume, ribs, ep_phys, nbhd_mm, bone_hu, y_frac_min, x_tol_mm) ==
    IF ~IsEligible(volume, ep_phys, y_frac_min, x_tol_mm)
    THEN INELIGIBLE
    ELSE <<0, Cardinality(NeighbourhoodBox(volume, ep_phys, nbhd_mm))>>

endpoint_is_posterior_missing_tubercle(volume, ribs, ep_phys, nbhd_mm, bone_hu, y_frac_min, x_tol_mm) ==
    IF ~IsEligible(volume, ep_phys, y_frac_min, x_tol_mm)
    THEN INELIGIBLE
    ELSE LET roi == NeighbourhoodBox(volume, ep_phys, nbhd_mm)
             other_bone == {v \in roi : volume.hu[v] >= bone_hu /\ v \notin ribs.fg}
         IN  <<Cardinality(other_bone), Cardinality(roi)>>

\* stats_percentiles_in_mask for one percentile that is a multiple of 20,
\* times 5: numpy's linear interpolation between the order statistics
\* around position (n - 1) * pct / 100.
OrderStat(volume, mask, j) ==
    CHOOSE L \in {volume.hu[v] : v \in mask.fg} :
        /\ Cardinality({v \in mask.fg : volume.hu[v] < L}) <= j
        /\ Cardinality({v \in mask.fg : volume.hu[v] <= L}) > j

Percentile5(volume, mask, pct) ==
    IF mask.fg = {} THEN 5 * EMPTY_MASK_PCTL
    ELSE LET n  == Cardinality(mask.fg)
             h  == (n - 1) * (pct \div 20)
             k  == h \div 5
             r  == h % 5
             lo == OrderStat(volume, mask, k)
             hi == IF r = 0 THEN lo ELSE OrderStat(volume, mask, k + 1)
         IN  5 * lo + r * (hi - lo)

\* sitk.BinaryMorphologicalClosing(img, rad): dilation then erosion by the
\* ball, on the image padded by the kernel radius (safe border).
ClosingBall(rad) ==
    {o \in ((-rad[1])..rad[1]) \X ((-rad[2])..rad[2]) \X ((-rad[3])..rad[3]) :
        InBall(o, rad)}

FinalBall == ClosingBall(FINAL_CLOSING)

BinaryMorphologicalClosing(img, ball) ==
    [img EXCEPT !.fg =
        {v \in Grid : \A b \in ball : \E s \in img.fg : VSub(VAdd(v, b), s) \in ball}]

\* sitk.BinaryThinning on a mask that is a one-voxel-wide digital line: no
\* voxel can be removed without shortening the line or cutting it.
skeleton(bin_u8) == bin_u8

-----------------------------------------------------------------------------
(* repair_first_rib *)

\* A step of the call that can raise: reading the rib file, the growth of
\* the k-th candidate (corridor, region growing, component filter), the
\* closing, the resampling back, the write.
NoFault == [at |-> "none", k |-> 0]

EmptyMask(like) == [origin |-> like.origin, spacing |-> like.spacing, fg |-> {}]

\* What the SKIP branch writes: the image as read, before resampling and
\* casting.
SkipOutput_Resampled(rib_raw, rib) == rib

SkipOutput(rib_raw, rib) == rib_raw

\* The call when no step raises.  rep.trace lists the steps completed,
\* rep.log the lines printed.
RepairSteps(volume, path, file) ==
    LET rib_raw   == file
        rib       == resample_like(rib_raw, volume)
        spine     == build_spine_mask(volume)
        side      == SideParams(path)
        skel      == skeleton(rib)
        endpoints == endpoints_from_skeleton(skel)
        fracs     == [i \in 1..Len(endpoints) |->
                         endpoint_is_posterior_missing_tubercle(
                             volume, rib, endpoints[i], NBHD_RADIUS_MM, NBHD_BONE_HU,
                             POSTERIOR_Y_IDX_MIN_FRAC, MIDLINE_X_TOL_MM)]
        growth_candidates ==
            SelectSeq([i \in 1..Len(endpoints) |-> <<endpoints[i], fracs[i]>>],
                      LAMBDA c : IsCandidate(c[2], side.active_cutoff))
        n         == Len(growth_candidates)
        base      == [failed |-> "none", written |-> TRUE, out |-> Null,
                      trace |-> <<"SKELETONIZE", "CLASSIFY_ENDPOINTS">>,
                      log |-> <<"INFO_ENDPOINTS">>, side |-> side, rib |-> rib,
                      spine |-> spine, endpoints |-> endpoints, fracs |-> fracs,
                      growth_candidates |-> growth_candidates,
                      lower_hu5 |-> 0, corridors |-> <<>>, grown |-> <<>>,
                      growths |-> <<>>, grow_union |-> Null, pre |-> Null,
                      refined |-> Null]
    IN
    IF n = 0
    THEN [base EXCEPT !.out = SkipOutput(rib_raw, rib),
                      !.trace = @ \o <<"SKIP_WRITE">>,
                      !.log = @ \o <<"SKIP">>]
    ELSE
    LET pctl_val5 == Percentile5(volume, rib, PCTL_ROBUST)
        lower_hu5 == Max2(pctl_val5, 5 * side.target_hu_floor)
        corridors == [i \in 1..n |->
                         corridor_for_tip(rib, spine, growth_candidates[i][1],
                                          R_RIB_MM_R, R_TIP_MM_R)]
        grown     == [i \in 1..n |->
                         region_grow_local(volume, <<growth_candidates[i][1]>>,
                                           lower_hu5, UPPER_HU, corridors[i])]
        growths   == [i \in 1..n |-> keep_growth_touching_rib(grown[i], rib)]
        grow_union == [EmptyMask(volume) EXCEPT
                          !.fg = UNION {growths[i].fg : i \in 1..n}]
        pre       == [rib EXCEPT !.fg = rib.fg \cup grow_union.fg]
        refined   == BinaryMorphologicalClosing(pre, FinalBall)
        refined_out == resample_like(refined, rib_raw)
    IN  [base EXCEPT !.lower_hu5 = lower_hu5, !.corridors = corridors,
                     !.grown = grown, !.growths = growths,
                     !.grow_union = grow_union, !.pre = pre, !.refined = refined,
                     !.out = refined_out,
                     !.trace = @ \o [i \in 1..n |-> "GROW_EACH"]
                                 \o <<"UNION", "CLOSE", "RESAMPLE", "WRITE">>,
                     !.log = @ \o <<"INFO_GROWTH", "OK">>]

\* The call when the step named by fault raises: what the steps before it
\* computed stays, nothing after it is computed, nothing is written.  No
\* step of the call catches an exception.
RaiseAt(run, fault) ==
    LET n == Len(run.growth_candidates)
        unwritten == [run EXCEPT !.written = FALSE, !.out = Null,
                                 !.failed = fault.at]
    IN
    IF fault.at = "none" THEN run
    ELSE IF fault.at = "read"
    THEN [unwritten EXCEPT !.trace = <<>>, !.log = <<>>, !.side = Null,
                           !.rib = Null, !.spine = Null, !.endpoints = <<>>,
                           !.fracs = <<>>, !.growth_candidates = <<>>,
                           !.lower_hu5 = 0, !.corridors = <<>>, !.grown = <<>>,
                           !.growths = <<>>, !.grow_union = Null, !.pre = Null,
                           !.refined = Null]
    ELSE IF n = 0
    THEN IF fault.at = "write"
         THEN [unwritten EXCEPT !.trace = <<"SKELETONIZE", "CLASSIFY_ENDPOINTS">>]
         ELSE run
    ELSE IF fault.at = "grow"
    THEN IF fault.k > n THEN run
         ELSE [unwritten EXCEPT
                  !.corridors = SubSeq(@, 1, fault.k - 1),
                  !.grown = SubSeq(@, 1, fault.k - 1),
                  !.growths = SubSeq(@, 1, fault.k - 1),
                  !.grow_union = [@ EXCEPT !.fg =
                      UNION {run.growths[i].fg : i \in 1..(fault.k - 1)}],
                  !.pre = Null, !.refined = Null,
                  !.trace = SubSeq(@, 1, 2 + fault.k - 1),
                  !.log = <<"INFO_ENDPOINTS", "INFO_GROWTH">>]
    ELSE IF fault.at = "close"
    THEN [unwritten EXCEPT !.refined = Null,
                           !.trace = SubSeq(@, 1, 2 + n + 1),
                           !.log = <<"INFO_ENDPOINTS", "INFO_GROWTH">>]
    ELSE [unwritten EXCEPT !.trace = SubSeq(@, 1, 2 + n + 3),
                           !.log = <<"INFO_ENDPOINTS", "INFO_GROWTH">>]

repair_first_rib(volume, path, file, fault) ==
    RaiseAt(RepairSteps(volume, path, file), fault)

-----------------------------------------------------------------------------
(* Specification of one call of repair_first_rib *)

\* Rib masks: one-voxel-wide rods in the first slice, along x, along y or
\* along the x-y diagonal.
RodDirections == {<<1, 0, 0>>, <<0, 1, 0>>, <<1, 1, 0>>}

Rods ==
    {LineVoxels(l.p0, l.d, l.len) :
        l \in {m \in Lines : m.d \in RodDirections /\ m.p0[3] = 0}}

\* A rib bent in the first slice: both ends posterior, the middle voxel one
\* step anterior, so that the two ends face each other across a gap.  It
\* is one voxel wide and 26-connected, and thinning removes nothing of it.
BentRib == {<<0, NY - 1, 0>>, <<1, NY - 2, 0>>, <<2, NY - 1, 0>>}

RibShapes == Rods \cup {BentRib}

\* Dense bone next to the posterior face of the volume: nothing, one voxel
\* or one column through every slice.
Posterior(S) == \A v \in S : v[2] = NY - 1
DenseParts == {S \in ZColumns \cup Singles : Posterior(S)} \cup {{}}

\* ... or soft tissue with one voxel of low intensity in it.
Volumes ==
    {Volume(sp, base, 700, S) : sp \in Spacings, base \in BaseHU, S \in DenseParts}
    \cup {Volume(<<10, 10, 10>>, 300, 100, S) : S \in Singles}

\* A rib file has the geometry of its CT or is shifted by one voxel along x.
RibFiles(volume) ==
    {[origin |-> <<dx * volume.spacing[1], 0, 0>>, spacing |-> volume.spacing, fg |-> r] :
        dx \in {0, 1}, r \in RibShapes}

RepairNames == {Name_rib_left_1, Name_rib_right_1, Name_rib_right_1_dash}

Faults ==
    {NoFault} \cup {[at |-> a, k |-> 0] : a \in {"read", "close", "write"}}
    \cup {[at |-> "grow", k |-> k] : k \in 1..2}

InitRepair ==
    /\ pc = "call"
    /\ ct \in Volumes
    /\ rib_path \in RepairNames
    /\ rib_file \in RibFiles(ct)
    /\ rep = Null
    /\ EndpointsIdle /\ FilterIdle /\ CorridorIdle /\ ClassifyIdle /\ BatchIdle

RepairFirstRib ==
    /\ pc = "call"
    /\ \E run \in {RepairSteps(ct, rib_path, rib_file)}, fault \in Faults :
           rep' = RaiseAt(run, fault)
    /\ pc' = "done"
    /\ UNCHANGED <<ct, rib_path, rib_file, endpointsVars, filterVars, corridorVars,
                   classifyVars, batchVars>>

NextRepair == RepairFirstRib

SpecRepair == InitRepair /\ [][NextRepair]_vars

SameGeometry(a, b) == a.origin = b.origin /\ a.spacing = b.spacing

\* C1 (as stated): the mask written contains every foreground voxel of the
\* input rib mask, on the SKIP path and on the growth path.
C1_Monotonicity ==
    (pc = "done" /\ rep.written) =>
        /\ SameGeometry(rep.out, rib_file)
        /\ rib_file.fg \subseteq rep.out.fg

\* C1 holds when the rib file has the geometry of the CT.
C1_MonotoneSameGeometry ==
    (pc = "done" /\ rep.written /\ SameGeometry(rib_file, ct)) =>
        rib_file.fg \subseteq rep.out.fg

\* C2: with no candidate after classification, repair_first_rib computes no
\* corridor, growth, closing or resampling back, and what it writes is the
\* image of the rib file exactly.
C2_SkipIdempotence ==
    (pc = "done" /\ rep.failed # "read" /\ rep.growth_candidates = <<>>) =>
        /\ rep.corridors = <<>> /\ rep.grown = <<>> /\ rep.growths = <<>>
        /\ rep.grow_union = Null /\ rep.pre = Null /\ rep.refined = Null
        /\ \A n \in 1..Len(rep.trace) :
               rep.trace[n] \notin {"GROW_EACH", "UNION", "CLOSE", "RESAMPLE", "WRITE"}
        /\ rep.written => rep.out = rib_file
        /\ rep.failed = "none" =>
               /\ rep.written
               /\ rep.trace = <<"SKELETONIZE", "CLASSIFY_ENDPOINTS", "SKIP_WRITE">>

\* A SKIP of a rib file whose geometry is not the CT's and that has
\* endpoints, all of them rejected.
C2_Witness ==
    /\ pc = "done"
    /\ rep.written
    /\ rep.growth_candidates = <<>>
    /\ Len(rep.endpoints) = 2
    /\ ~SameGeometry(rib_file, ct)
    /\ rep.rib.fg # rib_file.fg

\* C4 (as stated): when the growth of one accepted endpoint fails, the other
\* accepted endpoints are still grown and the rib is still unioned, closed
\* and written.
C4_EndpointFailureIsolated ==
    (pc = "done" /\ rep.failed = "grow") =>
        /\ rep.written
        /\ Len(rep.growths) >= Len(rep.growth_candidates) - 1

-----------------------------------------------------------------------------
(* Specification of the classification of one endpoint: the fraction that  *)
(* endpoint_is_posterior_missing_tubercle returns for a neighbourhood box  *)
(* of roi voxels, other_bone of them dense bone outside the rib, and the   *)
(* hard cutoff of repair_first_rib on it                                   *)

MaxRoi == 50

Neighbourhoods ==
    {n \in [eligible : BOOLEAN, other_bone : 0..MaxRoi, roi : 1..MaxRoi] :
        n.other_bone <= n.roi}

\* What the classifier returns: 1.0 for an ineligible endpoint, else the
\* mean of the other_bone booleans over the box.
ReturnedFraction(n) ==
    IF ~n.eligible THEN INELIGIBLE ELSE <<n.other_bone, n.roi>>

InitClassify ==
    /\ pc = "endpoint"
    /\ rib_path \in RibNames
    /\ nbhd \in Neighbourhoods
    /\ verdict = Null
    /\ ct = Null /\ rib_file = Null /\ rep = Null
    /\ EndpointsIdle /\ FilterIdle /\ CorridorIdle /\ BatchIdle

ClassifyEndpoint ==
    /\ pc = "endpoint"
    /\ LET side == SideParams(rib_path)
           frac == ReturnedFraction(nbhd)
       IN  verdict' = [side_tag |-> side.side_tag, frac |-> frac,
                       candidate |-> IsCandidate(frac, side.active_cutoff)]
    /\ pc' = "done"
    /\ UNCHANGED <<nbhd, endpointsVars, filterVars, corridorVars, repairVars, batchVars>>

NextClassify == ClassifyEndpoint

SpecClassify == InitClassify /\ [][NextClassify]_vars

C9_WitnessLeft ==
    /\ pc = "done"
    /\ nbhd.eligible
    /\ 50 * nbhd.other_bone = nbhd.roi
    /\ rib_path = Name_rib_left_1
    /\ verdict.side_tag = "Left"
    /\ verdict.candidate

-----------------------------------------------------------------------------
(* File names of the batch drivers: strings as sequences of characters *)

NiiGz == <<".", "n", "i", "i", ".", "g", "z">>
Nii == <<".", "n", "i", "i">>

Name_rib_left_2 == <<"r", "i", "b", "_", "l", "e", "f", "t", "_", "2">> \o NiiGz
Name_RIB_LEFT_1 == <<"R", "I", "B", "_", "L", "E", "F", "T", "_", "1">> \o Nii
Name_sternum == <<"s", "t", "e", "r", "n", "u", "m">> \o NiiGz
Name_lung == <<"l", "u", "n", "g">> \o NiiGz
Name_rib_left_1_nii == <<"r", "i", "b", "_", "l", "e", "f", "t", "_", "1">> \o Nii
Name_sub_rib_left_1 == <<"s", "u", "b", "/">> \o Name_rib_left_1

\* The characters the file names use, in code-point order.
Alphabet ==
    <<"-", ".", "/", "0", "1", "2", "3", "B", "E", "F", "G", "H", "I", "L", "R", "T",
      "_", "b", "e", "f", "g", "h", "i", "l", "m", "n", "r", "s", "t", "u", "z">>

ord(c) == CHOOSE n \in 1..Len(Alphabet) : Alphabet[n] = c

\* str.lower, on the letters of Alphabet
LowerChar(c) ==
    CASE c = "B" -> "b" [] c = "E" -> "e" [] c = "F" -> "f" [] c = "G" -> "g"
      [] c = "H" -> "h" [] c = "I" -> "i" [] c = "L" -> "l" [] c = "R" -> "r"
      [] c = "T" -> "t" [] OTHER -> c

lower(str) == [n \in 1..Len(str) |-> LowerChar(str[n])]

endswith(str, suffix) ==
    /\ Len(suffix) <= Len(str)
    /\ SubSeq(str, Len(str) - Len(suffix) + 1, Len(str)) = suffix

startswith(str, prefix) ==
    /\ Len(prefix) <= Len(str)
    /\ SubSeq(str, 1, Len(prefix)) = prefix

\* str.replace(old, ""): every occurrence of old removed, left to right
RECURSIVE Remove(_, _)
Remove(str, old) ==
    IF Len(str) < Len(old) THEN str
    ELSE IF SubSeq(str, 1, Len(old)) = old
         THEN Remove(SubSeq(str, Len(old) + 1, Len(str)), old)
         ELSE <<str[1]>> \o Remove(Tail(str), old)

\* Python's order on strings
RECURSIVE StrLess(_, _)
StrLess(a, b) ==
    IF a = <<>> THEN b # <<>>
    ELSE IF b = <<>> THEN FALSE
    ELSE IF a[1] = b[1] THEN StrLess(Tail(a), Tail(b))
    ELSE ord(a[1]) < ord(b[1])

RECURSIVE sorted(_)
sorted(S) ==
    IF S = {} THEN <<>>
    ELSE LET first == CHOOSE a \in S : \A b \in S \ {a} : StrLess(a, b)
         IN  <<first>> \o sorted(S \ {first})

stem_no_ext(filename) ==
    LET f == lower(filename)
    IN  IF endswith(f, NiiGz) THEN SubSeq(f, 1, Len(f) - 7)
        ELSE IF endswith(f, Nii) THEN SubSeq(f, 1, Len(f) - 4)
        ELSE f

\* STEM_RE.match: ^rib[-_](left|right)[-_]0?1$, case-insensitive
STEM_RE(stem) ==
    \E sep1 \in {"-", "_"}, sep2 \in {"-", "_"}, zero \in {<<>>, <<"0">>},
       side \in {<<"l", "e", "f", "t">>, <<"r", "i", "g", "h", "t">>} :
        lower(stem) = <<"r", "i", "b", sep1>> \o side \o <<sep2>> \o zero \o <<"1">>

\* The files under ribs_dir that are first ribs; files is the set of paths
\* os.walk visits.
list_first_ribs(files) ==
    {path \in files :
        LET lf == lower(basename(path))
        IN  /\ endswith(lf, Nii) \/ endswith(lf, NiiGz)
            /\ STEM_RE(stem_no_ext(lf))}

-----------------------------------------------------------------------------
(* Specification of the batch driver of tubercle_recovery.py: the loop     *)
(* over the subjects and, inside it, the loop over the first-rib files     *)

MaxSubjects == 2

SubjectIds == <<"CF01", "CF02", "CM03", "CM04">>

BatchRod == {<<0, 2, 0>>, <<1, 2, 0>>, <<2, 2, 0>>}

\* A CT on which both endpoints of BatchRod are accepted and grown, and one
\* on which dense bone next to the rod makes the classifier reject them.
ScanGrowing == Volume(<<10, 10, 10>>, 300, 100, {<<1, 1, 0>>})
ScanContaminated == Volume(<<10, 10, 10>>, 300, 700, {<<1, 2, 1>>})

\* A subject directory: whether <subj>_resampled.nii.gz exists and can be
\* read, whether <subj>_test exists, the files under it, and what the CT
\* and the rib files hold.
SubjectDirs ==
    {[ct_exists |-> TRUE, ct_readable |-> TRUE, ribs_dir |-> TRUE, scan |-> ScanGrowing,
      files |-> {Name_rib_left_1, Name_rib_right_1, Name_rib_left_2}],
     [ct_exists |-> TRUE, ct_readable |-> TRUE, ribs_dir |-> TRUE, scan |-> ScanContaminated,
      files |-> {Name_RIB_LEFT_1, Name_rib_right_01, Name_sternum}],
     [ct_exists |-> FALSE, ct_readable |-> FALSE, ribs_dir |-> TRUE, scan |-> ScanGrowing,
      files |-> {Name_rib_left_1}],
     [ct_exists |-> TRUE, ct_readable |-> TRUE, ribs_dir |-> FALSE, scan |-> ScanGrowing,
      files |-> {}],
     [ct_exists |-> TRUE, ct_readable |-> TRUE, ribs_dir |-> TRUE, scan |-> ScanGrowing,
      files |-> {Name_rib_left_2, Name_sternum}],
     [ct_exists |-> TRUE, ct_readable |-> FALSE, ribs_dir |-> TRUE, scan |-> ScanGrowing,
      files |-> {Name_rib_right_1_dash}],
     [ct_exists |-> TRUE, ct_readable |-> TRUE, ribs_dir |-> TRUE, scan |-> ScanContaminated,
      files |-> {Name_rib_left_1, Name_rib_left_1_nii, Name_sub_rib_left_1}]}

SubjectLists ==
    UNION {[1..n -> SubjectDirs] : n \in 1..MaxSubjects}

RibImage(subject) == Image(subject.scan.spacing, BatchRod)

\* out_path of a rib file: <out_dir>/<subj>_<base>_postprocessed.nii.gz
OutPath(subj, path) ==
    LET base == Remove(Remove(basename(path), NiiGz), Nii)
    IN  <<SubjectIds[subj], "_">> \o base
            \o <<"_", "p", "o", "s", "t", "p", "r", "o", "c", "e", "s", "s", "e", "d">>
            \o NiiGz

\* write_img(img, out_path): the file at out_path is replaced.
WriteFile(dir, path, unit, image) ==
    {f \in dir : f.path # path} \cup {[path |-> path, unit |-> unit, image |-> image]}

InitDriver ==
    /\ pc = "subject"
    /\ subjects \in SubjectLists
    /\ si = 1
    /\ rib_files = <<>>
    /\ out_dir = {}
    /\ log = <<>>
    /\ started = {}
    /\ tally = Null
    /\ ct_reads = <<>>
    /\ spine_builds = <<>>
    /\ ct = Null /\ rib_path = Null /\ rib_file = Null /\ rep = Null
    /\ EndpointsIdle /\ FilterIdle /\ CorridorIdle /\ ClassifyIdle

DriverFrame == <<rib_path, rib_file, rep, tally, endpointsVars, filterVars,
                 corridorVars, classifyVars>>

\* if not os.path.exists(ct_path): warning, continue
SkipMissingCT ==
    /\ pc = "subject" /\ si <= Len(subjects)
    /\ ~subjects[si].ct_exists
    /\ log' = Append(log, [tag |-> "WARNING_MISSING_CT", subj |-> si])
    /\ si' = si + 1
    /\ UNCHANGED <<pc, subjects, ct, rib_files, out_dir, started, ct_reads, spine_builds, DriverFrame>>

\* if not os.path.isdir(ribs_dir): warning, continue
SkipNoRibsDir ==
    /\ pc = "subject" /\ si <= Len(subjects)
    /\ subjects[si].ct_exists
    /\ ~subjects[si].ribs_dir
    /\ log' = Append(log, [tag |-> "WARNING_NO_RIBS_DIR", subj |-> si])
    /\ si' = si + 1
    /\ UNCHANGED <<pc, subjects, ct, rib_files, out_dir, started, ct_reads, spine_builds, DriverFrame>>

\* if not rib_files: warning, continue
SkipNoRibs ==
    /\ pc = "subject" /\ si <= Len(subjects)
    /\ subjects[si].ct_exists
    /\ subjects[si].ribs_dir
    /\ list_first_ribs(subjects[si].files) = {}
    /\ log' = Append(log, [tag |-> "WARNING_NO_FIRST_RIBS", subj |-> si])
    /\ si' = si + 1
    /\ UNCHANGED <<pc, subjects, ct, rib_files, out_dir, started, ct_reads, spine_builds, DriverFrame>>

\* read_img(ct_path) raises: error, continue
CTReadError ==
    /\ pc = "subject" /\ si <= Len(subjects)
    /\ subjects[si].ct_exists
    /\ subjects[si].ribs_dir
    /\ list_first_ribs(subjects[si].files) # {}
    /\ ~subjects[si].ct_readable
    /\ log' = log \o <<[tag |-> "INFO_FOUND_RIBS", subj |-> si],
                       [tag |-> "ERROR_CT_READ", subj |-> si]>>
    /\ si' = si + 1
    /\ UNCHANGED <<pc, subjects, ct, rib_files, out_dir, started, ct_reads, spine_builds, DriverFrame>>

\* The CT is read once and the loop over sorted(rib_files) is entered.
ReadCT ==
    /\ pc = "subject" /\ si <= Len(subjects)
    /\ subjects[si].ct_exists
    /\ subjects[si].ribs_dir
    /\ list_first_ribs(subjects[si].files) # {}
    /\ subjects[si].ct_readable
    /\ ct' = subjects[si].scan
    /\ ct_reads' = Append(ct_reads, si)
    /\ rib_files' = sorted(list_first_ribs(subjects[si].files))
    /\ log' = Append(log, [tag |-> "INFO_FOUND_RIBS", subj |-> si])
    /\ pc' = "ribs"
    /\ UNCHANGED <<subjects, si, out_dir, started, spine_builds, DriverFrame>>

\* One pass of the loop over the rib files: repair_first_rib inside
\* try/except; an exception is printed and the loop goes on.
RepairRib ==
    /\ pc = "ribs"
    /\ LET path == Head(rib_files)
           unit == <<si, path>>
           out_path == OutPath(si, path)
       IN  \E steps \in {RepairSteps(ct, path, RibImage(subjects[si]))}, fault \in Faults :
              LET run == RaiseAt(steps, fault)
              IN  /\ started' = started \cup {unit}
                  \* build_spine_mask(ct), in every call that has read
                  \* its rib file
                  /\ spine_builds' = IF run.failed = "read" THEN spine_builds
                                     ELSE Append(spine_builds, si)
                  /\ out_dir' = IF run.written
                                THEN WriteFile(out_dir, out_path, unit, run.out)
                                ELSE out_dir
                  /\ log' = log
                        \o [n \in 1..Len(run.log) |->
                               [tag |-> run.log[n], subj |-> si, rib |-> path]]
                        \o (IF run.failed # "none"
                            THEN <<[tag |-> "ERROR", subj |-> si, rib |-> path]>>
                            ELSE <<>>)
    /\ rib_files' = Tail(rib_files)
    /\ IF Tail(rib_files) = <<>>
       THEN pc' = "subject" /\ si' = si + 1
       ELSE pc' = "ribs" /\ si' = si
    /\ UNCHANGED <<subjects, ct, ct_reads, DriverFrame>>

\* All subjects processed.
AllProcessed ==
    /\ pc = "subject" /\ si > Len(subjects)
    /\ log' = Append(log, [tag |-> "ALL_PROCESSED", subj |-> 0])
    /\ pc' = "done"
    /\ UNCHANGED <<subjects, si, ct, rib_files, out_dir, started, ct_reads, spine_builds, DriverFrame>>

NextDriver ==
    \/ SkipMissingCT
    \/ SkipNoRibsDir
    \/ SkipNoRibs
    \/ CTReadError
    \/ ReadCT
    \/ RepairRib
    \/ AllProcessed

SpecDriver == InitDriver /\ [][NextDriver]_vars

OutputsOf(unit) == {f \in out_dir : f.unit = unit}

\* C3 (as stated): every rib unit the batch started has exactly one written
\* output when the batch ends, the unchanged original mask or the repaired
\* and closed mask, also when a step inside repair_first_rib failed.
C3_OneOutputPerStartedUnit ==
    pc = "done" =>
        \A unit \in started : Cardinality(OutputsOf(unit)) = 1

\* Without a failure inside repair_first_rib every started unit has its
\* output, unless a later unit was written to the same path.
C3_OutputUnlessFailure ==
    pc = "done" =>
        \A unit \in started :
            \/ Cardinality(OutputsOf(unit)) = 1
            \/ \E n \in 1..Len(log) :
                  log[n] = [tag |-> "ERROR", subj |-> unit[1], rib |-> unit[2]]
            \/ \E other \in started \ {unit} :
                  OutPath(other[1], other[2]) = OutPath(unit[1], unit[2])

\* C13 (as stated): two distinct rib files of one subject found by
\* list_first_ribs never have the same output path, and the output of a
\* unit that was written is still that unit's when the batch ends.
C13_OwnOutputPath ==
    /\ \A u1 \in started, u2 \in started :
           (u1 # u2 /\ u1[1] = u2[1]) => OutPath(u1[1], u1[2]) # OutPath(u2[1], u2[2])
    /\ pc = "done" =>
           \A unit \in started :
               \/ OutputsOf(unit) # {}
               \/ \E n \in 1..Len(log) :
                      log[n] = [tag |-> "ERROR", subj |-> unit[1], rib |-> unit[2]]

\* Rib files of one subject whose names differ after the directories and
\* the extensions .nii.gz and .nii are removed have different output paths.
C13_DistinctStemsDistinctPaths ==
    \A u1 \in started, u2 \in started :
        (u1[1] = u2[1]
            /\ Remove(Remove(basename(u1[2]), NiiGz), Nii)
                   # Remove(Remove(basename(u2[2]), NiiGz), Nii))
        => OutPath(u1[1], u1[2]) # OutPath(u2[1], u2[2])

-----------------------------------------------------------------------------
(* Specification of ribcage_pipeline.py: run_pipeline over the subjects    *)
(* and run_pipeline_single_subject over the sternum, the ribs and the      *)
(* other files of one subject                                              *)

\* The last rib number of range(1, 13), bounded.
LastRib == 2

DigitChars == <<"0", "1", "2", "3", "4", "5", "6", "7", "8", "9">>

\* str(n) for 0 <= n < 100
str(n) ==
    IF n < 10 THEN <<DigitChars[n + 1]>>
    ELSE <<DigitChars[(n \div 10) + 1], DigitChars[(n % 10) + 1]>>

Sides == <<<<"l", "e", "f", "t">>, <<"r", "i", "g", "h", "t">>>>

\* f"rib_{side}_{rib_num}.nii.gz"
RibFilename(side, rib_num) ==
    <<"r", "i", "b", "_">> \o side \o <<"_">> \o str(rib_num) \o NiiGz

\* The (side, rib_num) pairs in the order of the two nested loops.
RibLoop ==
    [n \in 1..(2 * LastRib) |->
        [side |-> Sides[((n - 1) \div LastRib) + 1], rib_num |-> ((n - 1) % LastRib) + 1]]

\* A subject of the pipeline: whether <subject>_resampled.nii.gz exists
\* under ct_root, what it holds, and the files of its segmentation
\* directory.
SegmentationDirs ==
    {[ct_exists |-> TRUE, scan |-> ScanGrowing,
      files |-> {Name_sternum, Name_rib_left_1, Name_rib_right_1, Name_rib_left_2, Name_lung}],
     [ct_exists |-> FALSE, scan |-> ScanGrowing,
      files |-> {Name_sternum, Name_rib_left_1, Name_rib_left_2}],
     [ct_exists |-> TRUE, scan |-> ScanContaminated,
      files |-> {Name_rib_right_1, RibFilename(Sides[2], 2)}],
     [ct_exists |-> TRUE, scan |-> ScanGrowing, files |-> {}]}

SegmentationLists ==
    UNION {[1..n -> SegmentationDirs] : n \in 0..MaxSubjects}

\* os.path.join(ct_root, subject + "_resampled.nii.gz")
CTPath(subj) == <<"ct_root", "/", SubjectIds[subj], "_resampled.nii.gz">>

InitPipeline ==
    /\ pc = "start"
    /\ subjects \in SegmentationLists
    /\ si = 1
    /\ rib_files = <<>>
    /\ out_dir = {}
    /\ log = <<>>
    /\ started = {}
    /\ tally = [successful |-> 0, failed |-> 0]
    /\ ct_reads = <<>>
    /\ spine_builds = <<>>
    /\ RepairIdle
    /\ EndpointsIdle /\ FilterIdle /\ CorridorIdle /\ ClassifyIdle

PipelineFrame == <<repairVars, endpointsVars, filterVars, corridorVars, classifyVars>>

\* if not subjects: print and return
NoSubjects ==
    /\ pc = "start"
    /\ subjects = <<>>
    /\ log' = Append(log, [tag |-> "NO_SUBJECTS", subj |-> 0])
    /\ pc' = "done"
    /\ UNCHANGED <<subjects, si, rib_files, out_dir, started, tally, ct_reads, spine_builds, PipelineFrame>>

FoundSubjects ==
    /\ pc = "start"
    /\ subjects # <<>>
    /\ log' = Append(log, [tag |-> "FOUND_SUBJECTS", subj |-> Len(subjects)])
    /\ pc' = "subject"
    /\ UNCHANGED <<subjects, si, rib_files, out_dir, started, tally, ct_reads, spine_builds, PipelineFrame>>

\* The head of the loop of run_pipeline: ct_path is built from the
\* subject's name and tested for emptiness, never for existence; then
\* run_pipeline_single_subject is entered.
BeginSubject ==
    /\ pc = "subject" /\ si <= Len(subjects)
    /\ IF CTPath(si) = <<>>
       THEN /\ log' = log \o <<[tag |-> "PROCESSING_SUBJECT", subj |-> si],
                               [tag |-> "WARNING_NO_CT", subj |-> si]>>
            /\ tally' = [tally EXCEPT !.failed = @ + 1]
            /\ si' = si + 1
            /\ UNCHANGED <<pc, rib_files>>
       ELSE /\ log' = Append(log, [tag |-> "PROCESSING_SUBJECT", subj |-> si])
            /\ rib_files' = RibLoop
            /\ pc' = "sternum"
            /\ UNCHANGED <<si, tally>>
    /\ UNCHANGED <<subjects, out_dir, started, ct_reads, spine_builds, PipelineFrame>>

\* except Exception in run_pipeline: the subject is counted as failed and
\* the loop goes to the next subject.
SubjectRaises(lines) ==
    /\ log' = log \o lines \o <<[tag |-> "ERROR_SUBJECT", subj |-> si]>>
    /\ tally' = [tally EXCEPT !.failed = @ + 1]
    /\ si' = si + 1
    /\ rib_files' = <<>>
    /\ pc' = "subject"

\* process_sternum when sternum.nii.gz exists, outside any try block.
ProcessSternum ==
    /\ pc = "sternum"
    /\ IF Name_sternum \in subjects[si].files
       THEN \E raises \in BOOLEAN :
               IF raises
               THEN /\ SubjectRaises(<<[tag |-> "PROCESSING_STERNUM", subj |-> si]>>)
                    /\ UNCHANGED out_dir
               ELSE /\ out_dir' = WriteFile(out_dir, <<si, Name_sternum>>,
                                            <<si, Name_sternum>>, "cleaned")
                    /\ log' = log \o <<[tag |-> "PROCESSING_STERNUM", subj |-> si],
                                       [tag |-> "SAVED_STERNUM", subj |-> si]>>
                    /\ pc' = "ribs"
                    /\ UNCHANGED <<si, rib_files, tally>>
       ELSE /\ log' = Append(log, [tag |-> "WARNING_NO_STERNUM", subj |-> si])
            /\ pc' = "ribs"
            /\ UNCHANGED <<si, rib_files, tally, out_dir>>
    /\ UNCHANGED <<subjects, started, ct_reads, spine_builds, PipelineFrame>>

\* One pass of the two nested loops over the ribs.  A first rib goes
\* through process_first_rib inside try/except, with the copy of the
\* original file in the except branch; the other ribs are copied inside
\* try/except.
RibStep ==
    /\ pc = "ribs"
    /\ LET cur == Head(rib_files)
           rib_filename == RibFilename(cur.side, cur.rib_num)
           unit == <<si, rib_filename>>
           subject == subjects[si]
           Advance ==
               /\ rib_files' = Tail(rib_files)
               /\ pc' = IF Tail(rib_files) = <<>> THEN "others" ELSE "ribs"
               /\ UNCHANGED <<si, tally>>
           Line(tag) == [tag |-> tag, subj |-> si, rib |-> rib_filename]
           \* shutil.copy2(rib_path, rib_output) in the except branch
           Fallback ==
               \E copy_raises \in BOOLEAN :
                   IF copy_raises
                   THEN /\ SubjectRaises(<<Line("PROCESSING_FIRST_RIB"),
                                           Line("ERROR_FIRST_RIB")>>)
                        /\ UNCHANGED out_dir
                   ELSE /\ out_dir' = WriteFile(out_dir, unit, unit, RibImage(subject))
                        /\ log' = log \o <<Line("PROCESSING_FIRST_RIB"),
                                           Line("ERROR_FIRST_RIB"),
                                           Line("COPIED_ORIGINAL")>>
                        /\ Advance
       IN  IF rib_filename \notin subject.files
           THEN /\ log' = Append(log, Line("WARNING_NO_RIB"))
                /\ Advance
                /\ UNCHANGED <<out_dir, started, ct_reads, spine_builds>>
           ELSE
           /\ started' = started \cup {unit}
           \* sitk.ReadImage(ct_path), the argument of every call of
           \* repair_first_rib in process_first_rib
           /\ ct_reads' = IF cur.rib_num = 1 /\ subject.ct_exists
                          THEN Append(ct_reads, si) ELSE ct_reads
           /\ IF cur.rib_num = 1
              THEN IF ~subject.ct_exists
                   THEN Fallback /\ UNCHANGED spine_builds
                   ELSE \E steps \in {RepairSteps(subject.scan, rib_filename,
                                                  RibImage(subject))},
                           fault \in Faults :
                           LET run == RaiseAt(steps, fault)
                           IN  /\ spine_builds' =
                                      IF run.failed = "read" THEN spine_builds
                                      ELSE Append(spine_builds, si)
                               /\ IF run.failed = "none"
                                  THEN /\ out_dir' = WriteFile(out_dir, unit, unit, run.out)
                                       /\ log' = log \o <<Line("PROCESSING_FIRST_RIB"),
                                                          Line("SAVED_FIRST_RIB"),
                                                          Line("PROCESSED_FIRST_RIB")>>
                                       /\ Advance
                                  ELSE Fallback
              ELSE \E copy_raises \in BOOLEAN :
                       /\ UNCHANGED spine_builds
                       /\ out_dir' = IF copy_raises THEN out_dir
                                     ELSE WriteFile(out_dir, unit, unit, RibImage(subject))
                       /\ log' = Append(log, IF copy_raises THEN Line("ERROR_COPY")
                                             ELSE Line("COPIED_RIB"))
                       /\ Advance
    /\ UNCHANGED <<subjects, PipelineFrame>>

\* The loop over the other files of the segmentation directory, each copy
\* inside try/except, then return True to run_pipeline.
CopyOthers ==
    /\ pc = "others"
    /\ LET others == {f \in subjects[si].files :
                         /\ endswith(f, NiiGz)
                         /\ ~(startswith(f, <<"r", "i", "b", "_">>) \/ f = Name_sternum)}
           todo == {f \in others : ~\E g \in out_dir : g.path = <<si, f>>}
       IN  \E failing \in SUBSET todo :
               /\ out_dir' = out_dir \cup
                      {[path |-> <<si, f>>, unit |-> <<si, f>>, image |-> "copy"] :
                          f \in todo \ failing}
               /\ log' = log \o <<[tag |-> "COPIED_ADDITIONAL", subj |-> si,
                                   files |-> todo \ failing, errors |-> failing],
                                  [tag |-> "SUBJECT_OK", subj |-> si]>>
    /\ tally' = [tally EXCEPT !.successful = @ + 1]
    /\ si' = si + 1
    /\ rib_files' = <<>>
    /\ pc' = "subject"
    /\ UNCHANGED <<subjects, started, ct_reads, spine_builds, PipelineFrame>>

PipelineCompleted ==
    /\ pc = "subject" /\ si > Len(subjects)
    /\ log' = Append(log, [tag |-> "PIPELINE_COMPLETED", subj |-> 0])
    /\ pc' = "done"
    /\ UNCHANGED <<subjects, si, rib_files, out_dir, started, tally, ct_reads, spine_builds, PipelineFrame>>

NextPipeline ==
    \/ NoSubjects
    \/ FoundSubjects
    \/ BeginSubject
    \/ ProcessSternum
    \/ RibStep
    \/ CopyOthers
    \/ PipelineCompleted

SpecPipeline == InitPipeline /\ [][NextPipeline]_vars

ExistingRibs(subj) ==
    {RibFilename(RibLoop[n].side, RibLoop[n].rib_num) : n \in 1..Len(RibLoop)}
        \cap subjects[subj].files

\* C5 (as stated): a failure in one unit aborts only that unit; every
\* remaining rib of the subject and every remaining subject is still
\* attempted before the batch ends.
C5_BatchProgressUnderFailure ==
    pc = "done" =>
        \A subj \in 1..Len(subjects) :
            \A f \in ExistingRibs(subj) : <<subj, f>> \in started

\* Every subject is reached, whatever failed before it: the tally counts
\* each subject once.
C5_EverySubjectReached ==
    (pc = "done" /\ subjects # <<>>) =>
        tally.successful + tally.failed = Len(subjects)

\* C6 (as stated): a subject whose CT file is absent is skipped with a
\* logged warning before any processing of it starts.
C6_MissingInputSkipped ==
    pc = "done" =>
        \A subj \in 1..Len(subjects) :
            ~subjects[subj].ct_exists =>
                /\ \E n \in 1..Len(log) :
                       log[n] = [tag |-> "WARNING_NO_CT", subj |-> subj]
                /\ ~\E f \in out_dir : f.unit[1] = subj
                /\ ~\E unit \in started : unit[1] = subj

\* An absent rib file is skipped with a warning and never started.
C6_MissingRibSkipped ==
    pc = "done" =>
        \A unit \in started : unit[2] \in subjects[unit[1]].files

-----------------------------------------------------------------------------
(* End-to-end properties of repair_first_rib, under SpecRepair *)

\* The i-th endpoint passes the anatomical gate, has no dense bone outside
\* the rib in its neighbourhood box, and every intensity in the box lies
\* between the lower growth bound and UPPER_HU.
CleanEnd(i) ==
    /\ IsEligible(ct, rep.endpoints[i], POSTERIOR_Y_IDX_MIN_FRAC, MIDLINE_X_TOL_MM)
    /\ rep.fracs[i][1] = 0
    /\ \A v \in NeighbourhoodBox(ct, rep.endpoints[i], NBHD_RADIUS_MM) :
           rep.lower_hu5 <= 5 * ct.hu[v] /\ ct.hu[v] <= UPPER_HU

HasCleanEnd ==
    /\ pc = "done" /\ rep.failed = "none"
    /\ \E i \in 1..Len(rep.endpoints) : CleanEnd(i)

StrictSuperset(a, b) == b \subseteq a /\ a # b

DenseBoneAround(i) ==
    {v \in NeighbourhoodBox(ct, rep.endpoints[i], NBHD_RADIUS_MM) :
        ct.hu[v] >= NBHD_BONE_HU /\ v \notin rep.rib.fg}

\* Endpoint i passes the anatomical gate and more than 10% of its
\* neighbourhood is dense bone outside the rib.
Surrounded(i) ==
    /\ IsEligible(ct, rep.endpoints[i], POSTERIOR_Y_IDX_MIN_FRAC, MIDLINE_X_TOL_MM)
    /\ 10 * Cardinality(DenseBoneAround(i))
           > Cardinality(NeighbourhoodBox(ct, rep.endpoints[i], NBHD_RADIUS_MM))

PosteriorEnds ==
    {i \in 1..Len(rep.endpoints) :
        IsEligible(ct, rep.endpoints[i], POSTERIOR_Y_IDX_MIN_FRAC, MIDLINE_X_TOL_MM)}

\* C12: an endpoint that passes the anatomical gate and has more than 10% of
\* its neighbourhood in dense bone outside the rib is rejected under the left
\* cutoff and under the right cutoff and is not among the growth candidates;
\* when that holds of every posterior end of the rod, the written output is
\* the input image exactly.
C12_SkipOnDenseBone ==
    (pc = "done" /\ rep.failed = "none") =>
        /\ \A i \in 1..Len(rep.endpoints) : Surrounded(i) =>
               /\ ~IsCandidate(rep.fracs[i], NBHD_BONE_FRAC_LEFT_CUTOFF)
               /\ ~IsCandidate(rep.fracs[i], NBHD_BONE_FRAC_RIGHT_CUTOFF)
               /\ \A c \in 1..Len(rep.growth_candidates) :
                      rep.growth_candidates[c][1] # rep.endpoints[i]
        /\ (PosteriorEnds # {} /\ \A i \in PosteriorEnds : Surrounded(i)) =>
               /\ rep.written
               /\ rep.out = rib_file

\* A completed repair of a rod with a posterior end that is surrounded by
\* dense bone, but not wholly, written back as it was read.
C12_Witness ==
    /\ pc = "done" /\ rep.failed = "none" /\ rep.written
    /\ \E i \in PosteriorEnds :
           /\ Surrounded(i)
           /\ rep.fracs[i][1] < rep.fracs[i][2]
    /\ \A i \in PosteriorEnds : Surrounded(i)
    /\ rep.out = rib_file


\* Endpoint i is anterior of the posterior threshold, or farther from the
\* midline of the volume than the tolerance.
NotPosterior(i) ==
    TransformPhysicalPointToIndex(ct, rep.endpoints[i])[2] * 1000
        < POSTERIOR_Y_IDX_MIN_FRAC * NY

OffMidline(i) ==
    Abs(2 * (rep.endpoints[i][1] - ct.origin[1]) - ct.spacing[1] * NX)
        > 2 * MIDLINE_X_TOL_MM

\* C16: an endpoint that is not posterior or is off the midline gets the
\* fraction 1.0 whatever its neighbourhood holds, is rejected under the left
\* and under the right cutoff, and is not among the growth candidates.
C16_AnatomicalGate ==
    (pc = "done" /\ rep.failed = "none") =>
        \A i \in 1..Len(rep.endpoints) : (NotPosterior(i) \/ OffMidline(i)) =>
            /\ rep.fracs[i][1] = rep.fracs[i][2]
            /\ ~IsCandidate(rep.fracs[i], NBHD_BONE_FRAC_LEFT_CUTOFF)
            /\ ~IsCandidate(rep.fracs[i], NBHD_BONE_FRAC_RIGHT_CUTOFF)
            /\ \A c \in 1..Len(rep.growth_candidates) :
                   rep.growth_candidates[c][1] # rep.endpoints[i]

\* A completed repair with a posterior endpoint that is off the midline and
\* has no dense bone around it, and that is not a candidate.
C16_Witness ==
    /\ pc = "done" /\ rep.failed = "none"
    /\ \E i \in 1..Len(rep.endpoints) :
           /\ OffMidline(i) /\ ~NotPosterior(i)
           /\ DenseBoneAround(i) = {}
           /\ \A c \in 1..Len(rep.growth_candidates) :
                  rep.growth_candidates[c][1] # rep.endpoints[i]

\* The two step sequences of a run: the SKIP path, and the growth path with
\* k endpoints grown.
SkipSequence == <<"SKELETONIZE", "CLASSIFY_ENDPOINTS", "SKIP_WRITE">>

GrowthSequence(k) ==
    <<"SKELETONIZE", "CLASSIFY_ENDPOINTS">> \o [i \in 1..k |-> "GROW_EACH"]
        \o <<"UNION", "CLOSE", "RESAMPLE", "WRITE">>

\* The endpoints whose fraction is within the cutoff of the rib's side.
Accepted ==
    {i \in 1..Len(rep.endpoints) :
        rep.fracs[i][1] * 1000 <= rep.side.active_cutoff * rep.fracs[i][2]}

C15_RightRibAlwaysSkipped ==
    (pc = "done" /\ rep.failed = "none" /\ rep.side.side_tag = "Right") =>
        /\ rep.growth_candidates = <<>>
        /\ rep.trace = <<"SKELETONIZE", "CLASSIFY_ENDPOINTS", "SKIP_WRITE">>
        /\ rep.out = rib_file

\* What the right-side parameters do ensure: every candidate of a right rib
\* has at most 0.5% dense bone around it, and growth starts at 400 HU or
\* above.
C15_RightRibStrictWindow ==
    (pc = "done" /\ rep.failed = "none" /\ rep.side.side_tag = "Right") =>
        /\ \A c \in 1..Len(rep.growth_candidates) :
               rep.growth_candidates[c][2][1] * 1000
                   <= NBHD_BONE_FRAC_RIGHT_CUTOFF * rep.growth_candidates[c][2][2]
        /\ rep.growth_candidates # <<>> => rep.lower_hu5 >= 5 * LOWER_HU_RIGHT_MIN

\* The file is one that list_first_ribs takes for a right first rib.
RightFirstRib(path) ==
    LET lf == lower(basename(path))
    IN  STEM_RE(stem_no_ext(lf)) /\ Contains(lf, <<"r", "i", "g", "h", "t">>)

\* Every voxel the growth added has its CT intensity in [lower bound,
\* UPPER_HU].
GrowthInsideWindow ==
    \A v \in rep.grow_union.fg :
        rep.lower_hu5 <= 5 * ct.hu[v] /\ ct.hu[v] <= UPPER_HU

\* C20 (as stated): on the growth path the lower bound is the larger of the
\* 40th percentile inside the rib mask and the floor of the rib's side, 200
\* for a left and 400 for a right first rib, and every voxel added by the
\* growth has its intensity between that bound and UPPER_HU.
C20_IntensityWindow ==
    (pc = "done" /\ rep.failed = "none" /\ rep.growth_candidates # <<>>) =>
        /\ rep.lower_hu5 =
               Max2(Percentile5(ct, rep.rib, PCTL_ROBUST),
                    5 * (IF RightFirstRib(rib_path) THEN LOWER_HU_RIGHT_MIN
                         ELSE LOWER_PCTL_FLOOR_R))
        /\ rep.lower_hu5 >= 5 * LOWER_PCTL_FLOOR_R
        /\ RightFirstRib(rib_path) => rep.lower_hu5 >= 5 * LOWER_HU_RIGHT_MIN
        /\ GrowthInsideWindow

\* The same with the side that repair_first_rib chose from the file name.
C20_WindowOfChosenSide ==
    (pc = "done" /\ rep.failed = "none" /\ rep.growth_candidates # <<>>) =>
        /\ rep.lower_hu5 =
               Max2(Percentile5(ct, rep.rib, PCTL_ROBUST),
                    5 * (IF rep.side.side_tag = "Right" THEN LOWER_HU_RIGHT_MIN
                         ELSE LOWER_PCTL_FLOOR_R))
        /\ rep.lower_hu5 >= 5 * LOWER_PCTL_FLOOR_R
        /\ rep.side.side_tag = "Right" => rep.lower_hu5 >= 5 * LOWER_HU_RIGHT_MIN
        /\ GrowthInsideWindow

-----------------------------------------------------------------------------
(* The loading of the CT volume, under SpecDriver and SpecPipeline *)

LoadsOf(subj) == Cardinality({n \in 1..Len(ct_reads) : ct_reads[n] = subj})

\* C14 (as stated): the CT of a subject is loaded at most once, however many
\* of the subject's rib files are repaired, by the tubercle_recovery driver
\* and by process_first_rib of ribcage_pipeline.
C14_CTLoadedOncePerSubject ==
    \A subj \in 1..Len(subjects) : LoadsOf(subj) <= 1

\* In the driver the loop over the rib files runs on the one volume read
\* before it.
C14_DriverSharesCT ==
    pc = "ribs" => (LoadsOf(si) = 1 /\ ct = subjects[si].scan)

\* No step of the loop over the rib files changes the volume.
C14_CTNeverMutated == [][pc = "ribs" => ct' = ct]_vars


-----------------------------------------------------------------------------
(* The final closing, under SpecRepair *)

\* The voxels the growth added to the rib, and the voxels within the reach
\* of the closing kernel from one of them.
Patch == rep.grow_union.fg \ rep.rib.fg

PatchRegion == {v \in Grid : \E g \in Patch : VSub(v, g) \in FinalBall}

\* C21 (as stated): on the growth path the closing adds voxels only within
\* the kernel's reach of the grown patch, and removes none; with nothing
\* grown the refined mask is the rib mask.
C21_ClosingRestrictedToPatch ==
    (pc = "done" /\ rep.failed = "none" /\ rep.growth_candidates # <<>>) =>
        /\ rep.pre.fg \subseteq rep.refined.fg
        /\ (rep.refined.fg \ rep.pre.fg) \subseteq PatchRegion

\* The closing removes nothing, and on a rib that is a straight rod it adds
\* nothing away from the patch.
C21_ClosingOfStraightRod ==
    (pc = "done" /\ rep.failed = "none" /\ rep.growth_candidates # <<>>) =>
        /\ rep.pre.fg \subseteq rep.refined.fg
        /\ rep.rib.fg \in Rods => (rep.refined.fg \ rep.pre.fg) \subseteq PatchRegion


-----------------------------------------------------------------------------
(* Specification of the growth loop of repair_first_rib with the accepted  *)
(* endpoints taken in any order and their corridor and growth steps        *)
(* interleaved: rep.start is the call as the code runs it, rep.built and   *)
(* rep.order the endpoints whose corridor is built and that are grown      *)

\* A merge that keeps the first growth only.
GrowStep_FirstWins(volume, rib, ep, lower_hu5, cor, grow_union) ==
    LET touching == keep_growth_touching_rib(
                      region_grow_local(volume, <<ep>>, lower_hu5, UPPER_HU, cor), rib)
    IN  IF grow_union.fg = {} THEN [grow_union EXCEPT !.fg = touching.fg] ELSE grow_union

\* The body of the loop after the corridor: the growth inside the corridor,
\* its components that touch the rib, ORed into grow_union.
GrowStep(volume, rib, ep, lower_hu5, cor, grow_union) ==
    LET touching == keep_growth_touching_rib(
                      region_grow_local(volume, <<ep>>, lower_hu5, UPPER_HU, cor), rib)
    IN  [grow_union EXCEPT !.fg = @ \cup touching.fg]

\* Uniform volumes, and soft tissue with one voxel of low intensity in it.
MergeVolumes ==
    {Volume(sp, base, base, {}) : sp \in {<<10, 10, 10>>, <<10, 10, 30>>}, base \in BaseHU}
    \cup {Volume(<<10, 10, 10>>, 300, 100, S) : S \in Singles}

InitMerge ==
    /\ pc = "call"
    /\ ct \in MergeVolumes
    /\ rib_path \in {Name_rib_left_1, Name_rib_right_1}
    /\ rib_file \in RibFiles(ct)
    /\ rep = Null
    /\ EndpointsIdle /\ FilterIdle /\ CorridorIdle /\ ClassifyIdle /\ BatchIdle

MergeFrame == <<ct, rib_path, rib_file, endpointsVars, filterVars, corridorVars,
               classifyVars, batchVars>>

Grown == {rep.order[n] : n \in 1..Len(rep.order)}

\* The call up to the loop over the candidates; with no candidate the
\* original image is written and the call returns.
ClassifyEndpoints ==
    /\ pc = "call"
    /\ \E steps \in {RepairSteps(ct, rib_path, rib_file)} :
           /\ rep' = [start |-> steps,
                      corridors |-> [i \in 1..Len(steps.growth_candidates) |->
                                        EmptyMask(ct)],
                      built |-> {},
                      order |-> <<>>,
                      grow_union |-> EmptyMask(ct),
                      out |-> IF steps.growth_candidates = <<>> THEN steps.out ELSE Null]
           /\ pc' = IF steps.growth_candidates = <<>> THEN "skipped" ELSE "grow"
    /\ UNCHANGED MergeFrame

\* corridor_for_tip for any accepted endpoint that has none yet.
BuildCorridor ==
    /\ pc = "grow"
    /\ \E i \in 1..Len(rep.start.growth_candidates) :
           /\ i \notin rep.built
           /\ rep' = [rep EXCEPT
                          !.built = @ \cup {i},
                          !.corridors[i] =
                              corridor_for_tip(rep.start.rib, rep.start.spine,
                                               rep.start.growth_candidates[i][1],
                                               R_RIB_MM_R, R_TIP_MM_R)]
    /\ UNCHANGED <<pc, MergeFrame>>

\* The growth of any accepted endpoint whose corridor is built, merged into
\* grow_union.
GrowEndpoint ==
    /\ pc = "grow"
    /\ \E i \in 1..Len(rep.start.growth_candidates) :
           /\ i \in rep.built
           /\ i \notin Grown
           /\ rep' = [rep EXCEPT
                          !.order = Append(@, i),
                          !.grow_union =
                              GrowStep(ct, rep.start.rib,
                                       rep.start.growth_candidates[i][1],
                                       rep.start.lower_hu5, rep.corridors[i], @)]
    /\ UNCHANGED <<pc, MergeFrame>>

\* After the loop: the union with the rib, the closing, the resampling back.
CloseAndResample ==
    /\ pc = "grow"
    /\ Len(rep.order) = Len(rep.start.growth_candidates)
    /\ LET pre == [rep.start.rib EXCEPT !.fg = @ \cup rep.grow_union.fg]
           refined == BinaryMorphologicalClosing(pre, FinalBall)
       IN  rep' = [rep EXCEPT !.out = resample_like(refined, rib_file)]
    /\ pc' = "done"
    /\ UNCHANGED MergeFrame

NextMerge ==
    \/ ClassifyEndpoints
    \/ BuildCorridor
    \/ GrowEndpoint
    \/ CloseAndResample

SpecMerge == InitMerge /\ [][NextMerge]_vars

\* C22: whatever the order in which the accepted endpoints are taken and
\* however their steps interleave, each corridor is the one the code builds
\* for that endpoint, the union so far is the union of the code's growths
\* of the endpoints taken, and the final mask is the one the code writes.
C22_OrderIndependentMerge ==
    /\ pc \in {"grow", "done"} =>
           /\ \A i \in rep.built : rep.corridors[i] = rep.start.corridors[i]
           /\ rep.grow_union.fg = UNION {rep.start.growths[i].fg : i \in Grown}
    /\ pc = "done" =>
           /\ rep.grow_union = rep.start.grow_union
           /\ rep.out = rep.start.out

\* Two accepted endpoints with different, non-empty growths, the second
\* grown before the first.
C22_Witness ==
    /\ pc = "done"
    /\ rep.order = <<2, 1>>
    /\ rep.start.growths[1].fg # {}
    /\ rep.start.growths[2].fg # {}
    /\ rep.start.growths[1].fg # rep.start.growths[2].fg


-----------------------------------------------------------------------------
(* The building of the spine mask, under SpecDriver *)

SpineBuildsOf(subj) ==
    Cardinality({n \in 1..Len(spine_builds) : spine_builds[n] = subj})

\* C23 (as stated): the spine mask of a subject's CT is built at most once,
\* however many of the subject's rib files are repaired.
C23_SpineMaskBuiltOnce ==
    \A subj \in 1..Len(subjects) : SpineBuildsOf(subj) <= 1

\* The spine mask is built once for every rib file of the subject that
\* repair_first_rib could read, from the one CT of the subject.
C23_SpineMaskBuiltPerRib ==
    \A subj \in 1..Len(subjects) :
        /\ SpineBuildsOf(subj) <= Cardinality({u \in started : u[1] = subj})
        /\ SpineBuildsOf(subj) > 0 => LoadsOf(subj) = 1


-----------------------------------------------------------------------------
(* The side parameters against the file matching, under SpecRepair *)

RightParams ==
    [side_tag |-> "Right", active_cutoff |-> NBHD_BONE_FRAC_RIGHT_CUTOFF,
     target_hu_floor |-> LOWER_HU_RIGHT_MIN]

\* C24 (as stated): a file that list_first_ribs accepts and whose stem names
\* the right side is repaired with the right-side cutoff and floor.
C24_RightFileGetsRightParams ==
    (pc = "done" /\ rep.failed # "read"
        /\ rib_path \in list_first_ribs({rib_path}) /\ RightFirstRib(rib_path))
    => rep.side = RightParams

\* A file whose name holds rib_right_1 literally is repaired with the
\* right-side cutoff and floor, every other file with the left-side ones.
C24_LiteralNameGetsRightParams ==
    (pc = "done" /\ rep.failed # "read") =>
        (rep.side = RightParams) <=> Contains(basename(rib_path), RIB_RIGHT_1)


-----------------------------------------------------------------------------
(* The rib files of the output directory, under SpecPipeline *)

\* run_pipeline_single_subject returned True for the subject.
Returned(subj) ==
    \E n \in 1..Len(log) : log[n] = [tag |-> "SUBJECT_OK", subj |-> subj]

Logged(tag, subj, rib_filename) ==
    \E n \in 1..Len(log) : log[n] = [tag |-> tag, subj |-> subj, rib |-> rib_filename]

FirstRibNames == {RibFilename(Sides[1], 1), RibFilename(Sides[2], 1)}

\* What the output directory has to hold under the name of a rib file: the
\* mask repair_first_rib wrote when process_first_rib came back, and the
\* image of the original file otherwise.
ExpectedRib(subj, rib_filename) ==
    IF rib_filename \in FirstRibNames /\ Logged("PROCESSED_FIRST_RIB", subj, rib_filename)
    THEN RepairSteps(subjects[subj].scan, rib_filename, RibImage(subjects[subj])).out
    ELSE RibImage(subjects[subj])

HoldsRib(subj, rib_filename) ==
    \E g \in out_dir :
        g.path = <<subj, rib_filename>> /\ g.image = ExpectedRib(subj, rib_filename)

\* C25 (as stated): when run_pipeline_single_subject returns, the output
\* directory holds a file for every rib file of the segmentation
\* directory: the copy for the ribs after the first, the repair result
\* for a first rib, and the original first rib when its repair raised.
C25_EveryRibInOutput ==
    \A subj \in 1..Len(subjects) :
        Returned(subj) => \A f \in ExistingRibs(subj) : HoldsRib(subj, f)

\* The first ribs alone: when the function returns, each existing first
\* rib is in the output directory, repaired or as the original.
C25_FirstRibInOutput ==
    \A subj \in 1..Len(subjects) :
        Returned(subj) => \A f \in ExistingRibs(subj) \cap FirstRibNames : HoldsRib(subj, f)

\* A rib file is absent from the output of a returned call only when its
\* own copy raised and was printed.
C25_AbsentOnlyAfterCopyError ==
    \A subj \in 1..Len(subjects) :
        Returned(subj) =>
            \A f \in ExistingRibs(subj) : HoldsRib(subj, f) \/ Logged("ERROR_COPY", subj, f)

C25_Witness ==
    \E subj \in 1..Len(subjects) :
        /\ Returned(subj)
        /\ Logged("COPIED_ORIGINAL", subj, RibFilename(Sides[1], 1))
        /\ Logged("PROCESSED_FIRST_RIB", subj, RibFilename(Sides[2], 1))
        /\ \A f \in ExistingRibs(subj) : HoldsRib(subj, f)


-----------------------------------------------------------------------------
(* The geometry of the masks of repair_first_rib, under SpecRepair *)

\* The masks the call computed between the read and the write.
IntermediateMasks ==
    {rep.rib, rep.spine}
    \cup {rep.corridors[i] : i \in 1..Len(rep.corridors)}
    \cup {rep.grown[i] : i \in 1..Len(rep.grown)}
    \cup {rep.growths[i] : i \in 1..Len(rep.growths)}
    \cup (IF rep.written /\ rep.growth_candidates # <<>>
          THEN {rep.grow_union, rep.pre, rep.refined} ELSE {})

\* C26: the mask written has the geometry of the rib file: on SKIP it is
\* the image as read, on success the refined mask resampled onto the grid
\* of the rib file; every mask computed in between has the geometry of the
\* CT.
C26_OutputGeometry ==
    (pc = "done" /\ rep.failed # "read") =>
        /\ \A m \in IntermediateMasks : SameGeometry(m, ct)
        /\ rep.written =>
               /\ SameGeometry(rep.out, rib_file)
               /\ rep.growth_candidates = <<>> => rep.out = rib_file
               /\ rep.growth_candidates # <<>> =>
                      rep.out = resample_like(rep.refined, rib_file)

\* A growth written for a rib file whose grid is not the grid of the CT:
\* the mask written differs from the refined mask in origin and in voxels.
C26_Witness ==
    /\ pc = "done" /\ rep.written /\ rep.growth_candidates # <<>>
    /\ ~SameGeometry(rib_file, ct)
    /\ rep.grow_union.fg # {}
    /\ rep.out.fg # rep.refined.fg
    /\ SameGeometry(rep.out, rib_file)

=============================================================================
